---- MODULE Spec2Model ----
(***************************************************************************)
(* Adaptive geometry quiz: the SQL-backed inference core                   *)
(* (backend_service/sql_geometry_manager.py, class SqlGeometryManager).    *)
(*                                                                         *)
(* Weights are Python floats in the source.  Every weight the program can  *)
(* reach is 0.25, 0.01 * 1.5^k (k <= 11) or 1.0, so they are kept exactly  *)
(* as integers in units of 1/409600 (409600 = 100 * 2^12).                 *)
(* Text is a sequence of one-character strings.                            *)
(***************************************************************************)
EXTENDS Integers, Sequences, FiniteSets, TLC

VARIABLES
    Triangles,              \* table Triangles: the triangle_id of its rows
    Questions,              \* table Questions: question_id -> row
    Theorems,               \* table Theorems: theorem_id -> row
    TheoremQuestionMatrix,  \* table TheoremQuestionMatrix: set of <<theorem_id, question_id>>
    InitialAnswerMultipliers, \* table InitialAnswerMultipliers: its rows, answer_type given as the answer's id
    inputDuring,            \* table inputDuring: the ans values stored so far
    triangle_weights,       \* self.state['triangle_weights']
    theorem_weights,        \* self.state['theorem_weights']
    asked_questions,        \* self.state['asked_questions']
    questions_count,        \* self.state['questions_count']
    _pending_question,      \* self._pending_question
    _resume_requested,      \* self._resume_requested
    call,                   \* the last call on the manager: operation, arguments, failed reads, return value
    geometry_managers,      \* app.py: session id -> the SqlGeometryManager of that session
    sessions,               \* table sessions: the session_id of its rows
    response,               \* app.py: the last HTTP response and the request it answers
    threads,                \* app.py: the requests being handled, one per server thread
    flask_session,          \* frontend: flask.session of the browser, key -> value
    user_log,               \* frontend: the records UserLogger has written
    Users,                  \* frontend: table Users, user_id -> row
    reset_tokens            \* frontend: the reset tokens issued, each with the number of passwords it has changed

catalog == <<Triangles, Questions, Theorems, TheoremQuestionMatrix, InitialAnswerMultipliers>>
state == <<triangle_weights, theorem_weights, asked_questions, questions_count>>
manager == <<triangle_weights, theorem_weights, asked_questions, questions_count,
             _pending_question, _resume_requested, call>>
app == <<geometry_managers, sessions, response, threads>>
frontend == <<flask_session, user_log, Users, reset_tokens>>
vars == <<Triangles, Questions, Theorems, TheoremQuestionMatrix, InitialAnswerMultipliers,
          inputDuring, triangle_weights,
          theorem_weights, asked_questions, questions_count, _pending_question,
          _resume_requested, call, geometry_managers, sessions, response, threads,
          flask_session, user_log, Users, reset_tokens>>

---------------------------------------------------------------------------
(* Bounds and program constants *)

\* cap on the length of asked_questions (get_first_question can append for ever)
MaxAsked == 3
\* the number of boosts a weight drawn for the weight update has had before (12 reach 1.0)
MaxLevel == 12

\* 1.0 in weight units
ONE == 409600
\* the initial theorem weight 0.01
BaseWeight == 4096
\* the initial triangle weight 0.25
TriangleWeight == 102400
\* the weight impact on the score: score += theorem_weight * 10
ScaleFactor == 10
\* theorem_text.split()[:3]
KeywordCount == 3
\* len(keyword) > 2
MinKeywordLen == 2
\* best_score = -1, in weight units
InitialBestScore == 0 - ONE

QuestionIds == {1, 2, 3}
TheoremIds == {1, 2}
TriangleIds == {0, 1, 2, 3}

\* Python None
None == [None |-> TRUE]

Min(a, b) == IF a <= b THEN a ELSE b

---------------------------------------------------------------------------
(* Text *)

\* str.lower() on one character
LowerChar(c) ==
    CASE c = "A" -> "a"
      [] c = "B" -> "b"
      [] c = "C" -> "c"
      [] OTHER -> c

\* str.lower()
Lower(s) == [i \in 1..Len(s) |-> LowerChar(s[i])]

\* str.split(): the maximal runs of non-blank characters, in order
RECURSIVE SplitFrom(_, _, _)
SplitFrom(s, i, word) ==
    IF i > Len(s)
    THEN IF word = <<>> THEN <<>> ELSE <<word>>
    ELSE IF s[i] = " "
         THEN IF word = <<>>
              THEN SplitFrom(s, i + 1, <<>>)
              ELSE <<word>> \o SplitFrom(s, i + 1, <<>>)
         ELSE SplitFrom(s, i + 1, Append(word, s[i]))

Split(s) == SplitFrom(s, 1, <<>>)

\* the Python operator: keyword in text
In(keyword, text) ==
    \E i \in 0..(Len(text) - Len(keyword)) :
        \A j \in 1..Len(keyword) : text[i + j] = keyword[j]

\* seq[:n]
Prefix(seq, n) == SubSeq(seq, 1, Min(n, Len(seq)))

---------------------------------------------------------------------------
(* The content catalog *)

Question(active, difficulty_level, question_text) ==
    [active |-> active, difficulty_level |-> difficulty_level, question_text |-> question_text]

Theorem(active, theorem_text) == [active |-> active, theorem_text |-> theorem_text]

\* "ab Abc ba cab": keywords (first three words longer than 2) = {"abc"}
TextA == <<"a", "b", " ", "A", "b", "c", " ", "b", "a", " ", "c", "a", "b">>
\* "bca"
TextB == <<"b", "c", "a">>

\* The catalogs the sessions run against (the catalog is fixed while the service runs).
\* Tie: questions 2 and 3 score 2.1 at the start (theorem 2 is inactive but linked).
CatalogTie ==
    [Triangles |-> {0, 1, 2, 3},
     Questions |-> (1 :> Question(1, 1, "q1") @@ 2 :> Question(1, 2, "q2") @@ 3 :> Question(1, 2, "q3")),
     Theorems  |-> (1 :> Theorem(1, TextA) @@ 2 :> Theorem(0, TextB)),
     TheoremQuestionMatrix |-> {<<1, 1>>, <<2, 2>>, <<1, 3>>},
     InitialAnswerMultipliers |-> {}]

\* No active question of difficulty 1, one active question in all; three triangle types.
CatalogNoEasy ==
    [Triangles |-> {0, 1, 2},
     Questions |-> (1 :> Question(0, 1, "q1") @@ 2 :> Question(1, 3, "q2") @@ 3 :> Question(0, 2, "q3")),
     Theorems  |-> (1 :> Theorem(1, TextA) @@ 2 :> Theorem(0, TextB)),
     TheoremQuestionMatrix |-> {<<1, 2>>},
     InitialAnswerMultipliers |-> {}]

\* Both theorems active; question 1 is linked to both (used for the weight update on its own).
CatalogTwoTheorems ==
    [Triangles |-> {0, 1, 2, 3},
     Questions |-> (1 :> Question(1, 1, "q1") @@ 2 :> Question(1, 1, "q2") @@ 3 :> Question(0, 2, "q3")),
     Theorems  |-> (1 :> Theorem(1, TextA) @@ 2 :> Theorem(1, TextB)),
     TheoremQuestionMatrix |-> {<<1, 1>>, <<2, 1>>, <<2, 2>>},
     InitialAnswerMultipliers |-> {}]

\* The catalog the HTTP service runs against: one easy question, one hard question
\* linked to the active theorem; answer 2 to question 1 doubles category 1 and rules
\* out category 2.
CatalogApp ==
    [Triangles |-> {0, 1, 2, 3},
     Questions |-> (1 :> Question(1, 1, "q1") @@ 2 :> Question(1, 2, "q2") @@ 3 :> Question(0, 2, "q3")),
     Theorems  |-> (1 :> Theorem(1, TextA) @@ 2 :> Theorem(0, TextB)),
     TheoremQuestionMatrix |-> {<<1, 2>>},
     InitialAnswerMultipliers |->
         {[question_id |-> 1, triangle_id |-> 1, answer_type |-> 2, multiplier |-> 2],
          [question_id |-> 1, triangle_id |-> 2, answer_type |-> 2, multiplier |-> 0]}]

Catalogs == {CatalogTie, CatalogNoEasy}

\* the free-text answers: "", "abc", "aBca", "cab", "ab ba"
Answers ==
    { <<>>, <<"a", "b", "c">>, <<"a", "B", "c", "a">>, <<"c", "a", "b">>,
      <<"a", "b", " ", "b", "a">> }

\* the answers submitted in a session: "" and "aBca"
SessionAnswers == { <<>>, <<"a", "B", "c", "a">> }

\* SELECT ... FROM Questions WHERE active = 1 AND difficulty_level = 1
EasyQuestions == {q \in QuestionIds : Questions[q].active = 1 /\ Questions[q].difficulty_level = 1}

\* the selection query without its NOT IN clause: every active question, asked or not
AvailableQuestionsAll(asked) == {q \in QuestionIds : Questions[q].active = 1}

\* SELECT ... FROM Questions WHERE active = 1 AND question_id NOT IN (asked)
AvailableQuestions(asked) ==
    {q \in QuestionIds : Questions[q].active = 1 /\ \A i \in 1..Len(asked) : asked[i] # q}

\* SELECT theorem_id FROM TheoremQuestionMatrix WHERE question_id = ?
LinkedTheorems(q) == {t \in TheoremIds : <<t, q>> \in TheoremQuestionMatrix}

\* ... JOIN Theorems t ... WHERE tq.question_id = ? AND t.active = 1
ActiveLinkedTheorems(q) == {t \in LinkedTheorems(q) : Theorems[t].active = 1}

\* SELECT theorem_id FROM Theorems WHERE active = 1
ActiveTheorems == {t \in TheoremIds : Theorems[t].active = 1}

\* the orders in which a query without ORDER BY may return the rows S
RowOrders(S) == {o \in [1..Cardinality(S) -> S] : \A i, j \in 1..Cardinality(S) : o[i] = o[j] => i = j}

---------------------------------------------------------------------------
(* SqlGeometryManager *)

\* dict.get(key, default)
Get(d, key, default) == IF key \in DOMAIN d THEN d[key] ELSE default

\* d[key] = value
Put(d, key, value) == [k \in DOMAIN d \cup {key} |-> IF k = key THEN value ELSE d[k]]

\* _initialize_theorem_weights: 0.01 for every active theorem, {} when the read fails
_initialize_theorem_weights(fail) ==
    IF fail THEN <<>> ELSE [t \in ActiveTheorems |-> BaseWeight]

\* the dict a question is returned and stored as
QuestionView(q, difficulty_level) ==
    [question_id |-> q, question_text |-> Questions[q].question_text,
     difficulty_level |-> difficulty_level]

\* the boost without the clamp: current_weight * 1.5
BoostUnclamped(current_weight) == (current_weight * 3) \div 2

\* the boost with a factor below one: min(current_weight * 0.5, 1.0)
BoostHalving(current_weight) == Min(current_weight \div 2, ONE)

\* min(current_weight * 1.5, 1.0)
Boost(current_weight) == Min((current_weight * 3) \div 2, ONE)

\* the keyword test without the [:3]: every word of the theorem text is a keyword
MentionedAnyWord(theorem_text, user_answer) ==
    LET user_answer_lower == Lower(user_answer)
        theorem_keywords == Split(Lower(theorem_text))
    IN  \E i \in 1..Len(theorem_keywords) :
            /\ Len(theorem_keywords[i]) > MinKeywordLen
            /\ In(Lower(theorem_keywords[i]), user_answer_lower)

\* mentioned = any(keyword.lower() in user_answer_lower for keyword in theorem_keywords if len(keyword) > 2)
Mentioned(theorem_text, user_answer) ==
    LET user_answer_lower == Lower(user_answer)
        theorem_keywords == Prefix(Split(Lower(theorem_text)), KeywordCount)
    IN  \E i \in 1..Len(theorem_keywords) :
            /\ Len(theorem_keywords[i]) > MinKeywordLen
            /\ In(Lower(theorem_keywords[i]), user_answer_lower)

\* the loop of _update_weights_based_on_answer over the rows related_theorems
RECURSIVE UpdateLoop(_, _, _)
UpdateLoop(weights, related_theorems, user_answer) ==
    IF related_theorems = {}
    THEN weights
    ELSE LET theorem_id == CHOOSE t \in related_theorems : \A u \in related_theorems : t <= u
             rest == related_theorems \ {theorem_id}
         IN  IF Mentioned(Theorems[theorem_id].theorem_text, user_answer)
             THEN UpdateLoop(Put(weights, theorem_id, Boost(Get(weights, theorem_id, BaseWeight))),
                             rest, user_answer)
             ELSE UpdateLoop(weights, rest, user_answer)

\* the update without its except clause: a failed lookup is raised to process_answer
UpdateRaising(weights, user_answer, question_id, fail) ==
    IF fail
    THEN [weights |-> weights, raised |-> TRUE]
    ELSE [weights |-> UpdateLoop(weights, ActiveLinkedTheorems(question_id), user_answer),
          raised |-> FALSE]

\* _update_weights_based_on_answer: a failed lookup is logged and swallowed, nothing
\* is raised to process_answer
_update_weights_based_on_answer(weights, user_answer, question_id, fail) ==
    IF fail
    THEN [weights |-> weights, raised |-> FALSE]
    ELSE [weights |-> UpdateLoop(weights, ActiveLinkedTheorems(question_id), user_answer),
          raised |-> FALSE]

\* score of one candidate row in _select_next_question
Score(q, weights) ==
    LET RECURSIVE Bonus(_)
        Bonus(S) == IF S = {} THEN 0
                    ELSE LET t == CHOOSE t \in S : TRUE
                         IN  Get(weights, t, BaseWeight) * ScaleFactor + Bonus(S \ {t})
    IN  Questions[q].difficulty_level * ONE + Bonus(LinkedTheorems(q))

\* the selection loop that never stores best_score: every row beats the initial -1
RECURSIVE SelectLoopStaleBest(_, _, _, _, _)
SelectLoopStaleBest(rows, i, best_question, best_score, weights) ==
    IF i > Len(rows)
    THEN best_question
    ELSE LET score == Score(rows[i], weights)
         IN  IF score > best_score
             THEN SelectLoopStaleBest(rows, i + 1, <<rows[i]>>, best_score, weights)
             ELSE SelectLoopStaleBest(rows, i + 1, best_question, best_score, weights)

\* the loop of _select_next_question over available_questions, in row order;
\* best_question is <<>> for None and <<q>> for the row of question q
RECURSIVE SelectLoop(_, _, _, _, _)
SelectLoop(rows, i, best_question, best_score, weights) ==
    IF i > Len(rows)
    THEN best_question
    ELSE LET score == Score(rows[i], weights)
         IN  IF score > best_score
             THEN SelectLoop(rows, i + 1, <<rows[i]>>, score, weights)
             ELSE SelectLoop(rows, i + 1, best_question, best_score, weights)

\* _select_next_question; rows = available_questions in the order the query returned them
_select_next_question(weights, rows, fail) ==
    IF fail
    THEN [error |-> "Selection error: db"]
    ELSE IF rows = <<>>
         THEN [message |-> "No more questions available"]
         ELSE LET best_question == SelectLoop(rows, 1, <<>>, InitialBestScore, weights)
              IN  IF best_question # <<>>
                  THEN QuestionView(best_question[1], Questions[best_question[1]].difficulty_level)
                  ELSE QuestionView(rows[1], Questions[rows[1]].difficulty_level)

\* _initialize_state
_initialize_state(fail) ==
    [triangle_weights |-> [c \in TriangleIds |-> TriangleWeight],
     theorem_weights |-> _initialize_theorem_weights(fail),
     asked_questions |-> <<>>,
     questions_count |-> 0]

---------------------------------------------------------------------------
(* Operations *)

\* the frontend service is not part of the run: no browser session, log, user or token
NoFrontend ==
    /\ flask_session = <<>>
    /\ user_log = <<>>
    /\ Users = <<>>
    /\ reset_tokens = <<>>

\* no HTTP request has been served: the registry and the sessions table are empty
NoRequests ==
    /\ geometry_managers = <<>>
    /\ sessions = {}
    /\ response = [endpoint |-> "none"]
    /\ threads = <<>>

\* SqlGeometryManager() against one of the catalogs; the theorem read may fail
Init ==
    \E c \in Catalogs, fail \in BOOLEAN :
        /\ Triangles = c.Triangles
        /\ Questions = c.Questions
        /\ Theorems = c.Theorems
        /\ TheoremQuestionMatrix = c.TheoremQuestionMatrix
        /\ InitialAnswerMultipliers = c.InitialAnswerMultipliers
        /\ inputDuring = {}
        /\ triangle_weights = [t \in TriangleIds |-> TriangleWeight]
        /\ theorem_weights = IF fail THEN <<>>
                             ELSE [t \in {u \in TheoremIds : c.Theorems[u].active = 1} |-> BaseWeight]
        /\ asked_questions = <<>>
        /\ questions_count = 0
        /\ _pending_question = None
        /\ _resume_requested = FALSE
        /\ call = [op |-> "__init__", fails |-> IF fail THEN {"init"} ELSE {}, ret |-> None]
        /\ NoRequests
    /\ NoFrontend
        /\ NoFrontend

\* get_first_question without questions_count += 1
get_first_question_no_count ==
    /\ Len(asked_questions) < MaxAsked
    /\ \E fail \in BOOLEAN :
        IF fail
        THEN /\ call' = [op |-> "get_first_question", fails |-> {"select"},
                         ret |-> [error |-> "Database error: db"]]
             /\ UNCHANGED <<catalog, inputDuring, state, _pending_question, _resume_requested>>
        ELSE IF EasyQuestions = {}
             THEN /\ call' = [op |-> "get_first_question", fails |-> {},
                              ret |-> [error |-> "No easy questions found"]]
                  /\ UNCHANGED <<catalog, inputDuring, state, _pending_question, _resume_requested>>
             ELSE \E selected_question \in EasyQuestions :
                  /\ asked_questions' = Append(asked_questions, selected_question)
                  /\ _pending_question' = QuestionView(selected_question, 1)
                  /\ call' = [op |-> "get_first_question", fails |-> {},
                              ret |-> QuestionView(selected_question, 1)]
                  /\ UNCHANGED <<catalog, inputDuring, triangle_weights, theorem_weights,
                                 questions_count, _resume_requested>>
    /\ UNCHANGED <<app, frontend>>

\* get_first_question(): a random active question of difficulty 1
get_first_question ==
    /\ Len(asked_questions) < MaxAsked
    /\ \E fail \in BOOLEAN :
        IF fail
        THEN /\ call' = [op |-> "get_first_question", fails |-> {"select"},
                         ret |-> [error |-> "Database error: db"]]
             /\ UNCHANGED <<catalog, inputDuring, state, _pending_question, _resume_requested>>
        ELSE IF EasyQuestions = {}
             THEN /\ call' = [op |-> "get_first_question", fails |-> {},
                              ret |-> [error |-> "No easy questions found"]]
                  /\ UNCHANGED <<catalog, inputDuring, state, _pending_question, _resume_requested>>
             ELSE \E selected_question \in EasyQuestions :
                  /\ asked_questions' = Append(asked_questions, selected_question)
                  /\ questions_count' = questions_count + 1
                  /\ _pending_question' = QuestionView(selected_question, 1)
                  /\ call' = [op |-> "get_first_question", fails |-> {},
                              ret |-> QuestionView(selected_question, 1)]
                  /\ UNCHANGED <<catalog, inputDuring, triangle_weights, theorem_weights,
                                 _resume_requested>>
    /\ UNCHANGED <<app, frontend>>

\* the queries of process_answer that may fail: the INSERT, the theorem lookup of the
\* update, the queries of the selection
FailSets == {{}, {"insert"}, {"update"}, {"select"}, {"update", "select"}}

\* process_answer(user_answer, question_id)
process_answer ==
    /\ Len(asked_questions) < MaxAsked \/ AvailableQuestions(asked_questions) = {}
    /\ \E fails \in FailSets :
        IF "insert" \in fails
        THEN /\ call' = [op |-> "process_answer", fails |-> fails,
                         ret |-> [error |-> "Processing error: db"]]
             /\ UNCHANGED <<catalog, inputDuring, state, _pending_question, _resume_requested>>
        ELSE \E user_answer \in SessionAnswers, question_id \in QuestionIds :
             LET updated == _update_weights_based_on_answer(theorem_weights, user_answer,
                                                            question_id, "update" \in fails)
             IN  /\ inputDuring' = inputDuring \cup {user_answer}
                 /\ theorem_weights' = updated.weights
                 /\ UNCHANGED <<catalog, triangle_weights, _resume_requested>>
                 /\ IF updated.raised
                    THEN /\ call' = [op |-> "process_answer", fails |-> fails,
                                     ret |-> [error |-> "Processing error: db"]]
                         /\ UNCHANGED <<asked_questions, questions_count, _pending_question>>
                    ELSE \E rows \in IF "select" \in fails THEN {<<>>}
                                     ELSE RowOrders(AvailableQuestions(asked_questions)) :
                         LET next_question == _select_next_question(updated.weights, rows,
                                                                    "select" \in fails)
                         IN  /\ _pending_question' = next_question
                             /\ IF "question_id" \in DOMAIN next_question
                                THEN /\ asked_questions' =
                                            Append(asked_questions, next_question.question_id)
                                     /\ questions_count' = questions_count + 1
                                     /\ call' = [op |-> "process_answer", fails |-> fails,
                                                 ret |-> next_question]
                                ELSE /\ call' = [op |-> "process_answer", fails |-> fails,
                                                 ret |-> [error |-> "Processing error: 'question_id'"]]
                                     /\ UNCHANGED <<asked_questions, questions_count>>
    /\ UNCHANGED <<app, frontend>>

\* reset_session(): back to the state of a new manager
reset_session ==
    /\ \E fail \in BOOLEAN :
        LET fresh == _initialize_state(fail)
        IN  /\ triangle_weights' = fresh.triangle_weights
            /\ theorem_weights' = fresh.theorem_weights
            /\ asked_questions' = fresh.asked_questions
            /\ questions_count' = fresh.questions_count
            /\ _pending_question' = None
            /\ _resume_requested' = FALSE
            /\ call' = [op |-> "reset_session", fails |-> IF fail THEN {"init"} ELSE {},
                        ret |-> None]
            /\ UNCHANGED <<catalog, inputDuring>>
    /\ UNCHANGED <<app, frontend>>

Next == get_first_question \/ process_answer \/ reset_session

Spec == Init /\ [][Next]_vars

---------------------------------------------------------------------------
(* The weight update on its own: _update_weights_based_on_answer applied once to a  *)
(* state a session can be in, for every answer, question and lookup outcome.        *)

\* 0.01 boosted k times
RECURSIVE Level(_)
Level(k) == IF k = 0 THEN BaseWeight ELSE Boost(Level(k - 1))

\* the theorem_weights a session over catalog c can hold: every active theorem at some
\* level; or, after a failed initial read, entries only for theorems boosted since
ReachableWeights(c) ==
    LET active == {t \in TheoremIds : c.Theorems[t].active = 1}
    IN  UNION { { w \in [D -> {Level(k) : k \in 0..MaxLevel}] :
                      D # active => \A t \in D : w[t] # BaseWeight } : D \in SUBSET active }

InitUpdate ==
    \E c \in {CatalogTie, CatalogTwoTheorems} :
    \E w \in ReachableWeights(c), user_answer \in Answers, question_id \in QuestionIds,
       fail \in BOOLEAN :
        /\ Triangles = c.Triangles
        /\ Questions = c.Questions
        /\ Theorems = c.Theorems
        /\ TheoremQuestionMatrix = c.TheoremQuestionMatrix
        /\ InitialAnswerMultipliers = c.InitialAnswerMultipliers
        /\ inputDuring = {user_answer}
        /\ triangle_weights = [t \in TriangleIds |-> TriangleWeight]
        /\ theorem_weights = w
        /\ asked_questions = <<>>
        /\ questions_count = 0
        /\ _pending_question = None
        /\ _resume_requested = FALSE
        /\ call = [op |-> "process_answer", user_answer |-> user_answer,
                   question_id |-> question_id,
                   fails |-> IF fail THEN {"update"} ELSE {}, ret |-> None]
        /\ NoRequests
    /\ NoFrontend
        /\ NoFrontend

\* self._update_weights_based_on_answer(user_answer, question_id)
update_weights ==
    /\ call.op = "process_answer"
    /\ theorem_weights' =
           _update_weights_based_on_answer(theorem_weights, call.user_answer,
                                           call.question_id, "update" \in call.fails).weights
    /\ call' = [op |-> "_update_weights_based_on_answer", user_answer |-> call.user_answer,
                question_id |-> call.question_id, fails |-> call.fails,
                before |-> theorem_weights, ret |-> None]
    /\ UNCHANGED <<catalog, inputDuring, triangle_weights, asked_questions, questions_count,
                   _pending_question, _resume_requested>>
    /\ UNCHANGED <<app, frontend>>

NextUpdate == update_weights

SpecUpdate == InitUpdate /\ [][NextUpdate]_vars

---------------------------------------------------------------------------
(* The HTTP service (backend_service/app.py): one SqlGeometryManager per session id  *)
(* in the registry geometry_managers.  Here every request is handled from start to   *)
(* end before the next one, and the database answers every query.                    *)

\* cap on the length of a session's asked_questions in the service; answers are sent
\* while an unasked question remains
MaxAskedApp == 2

\* the values uuid.uuid4() can return
SessionIds == {1, 2}
\* session.get('session_id') of a request without a session cookie
NoCookie == 0
\* the session ids a request can carry
Cookies == SessionIds \cup {NoCookie}

\* JSON values of a request body: a number or a string
JsonNumber(n) == [int |-> n]
JsonString(s) == [str |-> s]

\* the bodies POSTed to /api/answer (None: get_json() gave no body)
AnswerData ==
    { None,
      [answer_id |-> JsonNumber(2)],
      [question_id |-> JsonNumber(1)],
      [question_id |-> JsonNumber(1), answer_id |-> JsonNumber(2)],
      [question_id |-> JsonString(<<"a", "B", "c", "a">>), answer_id |-> JsonNumber(2)] }

\* the check of /api/answer without the two key tests: if not data
InvalidAnswerNoBody(data) == data = None

\* if not data or 'question_id' not in data or 'answer_id' not in data
InvalidAnswer(data) ==
    \/ data = None
    \/ "question_id" \notin DOMAIN data
    \/ "answer_id" \notin DOMAIN data

\* the query parameters of /api/theorems (None: question_id or answer_id missing)
TheoremArgs == { None, [question_id |-> 1, answer_id |-> 1] }

\* a feedback value no request carries: no feedback asks to go back
ResumeFeedbackNever == 0 - 1

\* the feedback value that asks to go back to the exercise
ResumeFeedback == 7

\* the feedback of a Session no feedback was set on
NoFeedback == 0

\* the bodies POSTed to /api/session/end (None: no JSON body)
EndData == { None, [feedback_id |-> 5], [feedback_id |-> 7] }

\* Session(): the record of one session that is saved at its end
Session == [feedback |-> NoFeedback]

\* session.set_feedback(feedback_id)
set_feedback(session, feedback_id) == [session EXCEPT !.feedback = feedback_id]

\* SqlGeometryManager(): the object __init__ builds
SqlGeometryManager ==
    [state |-> _initialize_state(FALSE),
     session |-> Session,
     _pending_question |-> None,
     _resume_requested |-> FALSE]

\* the text an integer parameter is stored as in the NVARCHAR column ans
IntText(n) == <<ToString(n)>>

\* manager.get_first_question(): the managers it can leave and what it returns
Manager_get_first_question(m) ==
    IF EasyQuestions = {}
    THEN {[manager |-> m, ret |-> [error |-> "No easy questions found"]]}
    ELSE {[manager |-> [m EXCEPT !.state.asked_questions = Append(@, selected_question),
                                 !.state.questions_count = @ + 1,
                                 !._pending_question = QuestionView(selected_question, 1)],
           ret |-> QuestionView(selected_question, 1)] : selected_question \in EasyQuestions}

\* process_answer that returns the selected question without recording it in the history
Manager_process_answer_no_append(m, user_answer, question_id) ==
    LET weights == IF "str" \in DOMAIN user_answer
                   THEN _update_weights_based_on_answer(m.state.theorem_weights, user_answer.str,
                                                        question_id, FALSE).weights
                   ELSE m.state.theorem_weights
        updated == [m EXCEPT !.state.theorem_weights = weights]
    IN  { LET next_question == _select_next_question(weights, rows, FALSE)
          IN  IF "question_id" \in DOMAIN next_question
              THEN [manager |-> [updated EXCEPT !._pending_question = next_question],
                    ret |-> next_question]
              ELSE [manager |-> [updated EXCEPT !._pending_question = next_question],
                    ret |-> [error |-> "Processing error: 'question_id'"]]
          : rows \in RowOrders(AvailableQuestions(m.state.asked_questions)) }

\* manager.process_answer(user_answer, question_id): the managers it can leave and what it
\* returns; a user_answer that is a number has no lower(), which the update logs and swallows
Manager_process_answer(m, user_answer, question_id) ==
    UNION {
      { LET updated == [m EXCEPT !.state.theorem_weights = weights]
            next_question == _select_next_question(weights, rows, FALSE)
        IN  IF "question_id" \in DOMAIN next_question
            THEN [manager |-> [updated EXCEPT
                                  !._pending_question = next_question,
                                  !.state.asked_questions = Append(@, next_question.question_id),
                                  !.state.questions_count = @ + 1],
                  ret |-> next_question]
            ELSE [manager |-> [updated EXCEPT !._pending_question = next_question],
                  ret |-> [error |-> "Processing error: 'question_id'"]]
        : rows \in RowOrders(AvailableQuestions(m.state.asked_questions)) }
      : weights \in { IF "str" \in DOMAIN user_answer
                      THEN _update_weights_based_on_answer(m.state.theorem_weights,
                                                           user_answer.str, question_id,
                                                           FALSE).weights
                      ELSE m.state.theorem_weights } }

\* get_manager() without the check: an unknown session id gets a new manager
get_manager_or_create(session_id) ==
    IF session_id \in DOMAIN geometry_managers
    THEN geometry_managers[session_id]
    ELSE SqlGeometryManager

\* get_manager(): the manager of the session id the request carries, or None
get_manager(session_id) ==
    IF session_id = NoCookie \/ session_id \notin DOMAIN geometry_managers
    THEN None
    ELSE geometry_managers[session_id]

\* a registry with one manager object for all session ids
StoreShared(registry, session_id, m) == [s \in DOMAIN registry \cup {session_id} |-> m]

\* the registry after the manager object of session_id was created or mutated
Store(registry, session_id, m) ==
    [s \in DOMAIN registry \cup {session_id} |-> IF s = session_id THEN m ELSE registry[s]]

\* a del that leaves the entry in place
RemoveNothing(registry, session_id) == registry

\* del geometry_managers[session_id]
Remove(registry, session_id) == [s \in DOMAIN registry \ {session_id} |-> registry[s]]

\* the session ids uuid4 has returned before
UsedIds == DOMAIN geometry_managers \cup sessions

\* a response with the request it answers: the endpoint, the session id the request
\* carried (for /api/start: the one it was given), the body the handler parsed
Response(endpoint, session_id, data, status, body) ==
    [endpoint |-> endpoint, session_id |-> session_id, data |-> data, status |-> status,
     body |-> body]

NoActiveSession == [error |-> "No active session. Please call /api/start first"]

\* the answer of every endpoint to a request without a manager
Rejected(endpoint, session_id) ==
    /\ response' = Response(endpoint, session_id, None, 400, NoActiveSession)
    /\ UNCHANGED <<geometry_managers, sessions, inputDuring>>

\* the except clause of every endpoint: an exception becomes a 500
Failed(endpoint, session_id, error) ==
    /\ response' = Response(endpoint, session_id, None, 500, [error |-> error])
    /\ UNCHANGED <<geometry_managers, sessions, inputDuring>>

InitApp ==
    /\ Triangles = CatalogApp.Triangles
    /\ Questions = CatalogApp.Questions
    /\ Theorems = CatalogApp.Theorems
    /\ TheoremQuestionMatrix = CatalogApp.TheoremQuestionMatrix
    /\ InitialAnswerMultipliers = CatalogApp.InitialAnswerMultipliers
    /\ inputDuring = {}
    /\ triangle_weights = [t \in TriangleIds |-> TriangleWeight]
    /\ theorem_weights = <<>>
    /\ asked_questions = <<>>
    /\ questions_count = 0
    /\ _pending_question = None
    /\ _resume_requested = FALSE
    /\ call = [op |-> "none"]
    /\ NoRequests
    /\ NoFrontend

\* GET /api/health
health_check ==
    /\ response' = Response("/api/health", NoCookie, None, 200, [status |-> "healthy"])
    /\ UNCHANGED <<catalog, inputDuring, manager, frontend, geometry_managers, sessions, threads>>

\* GET /api/start
api_start ==
    /\ \E session_id \in SessionIds \ UsedIds :
        /\ geometry_managers' = Store(geometry_managers, session_id, SqlGeometryManager)
        /\ response' = Response("/api/start", session_id, None, 200, [session_id |-> session_id])
    /\ UNCHANGED <<catalog, inputDuring, manager, frontend, sessions, threads>>

\* GET /api/question/first
api_question_first ==
    /\ \E session_id \in Cookies :
        LET m == get_manager(session_id)
        IN  IF m = None
            THEN Rejected("/api/question/first", session_id)
            ELSE /\ Len(m.state.asked_questions) < MaxAskedApp
                 /\ \E out \in Manager_get_first_question(m) :
                     /\ geometry_managers' = Store(geometry_managers, session_id, out.manager)
                     /\ response' = Response("/api/question/first", session_id, None,
                                             IF "error" \in DOMAIN out.ret THEN 404 ELSE 200, out.ret)
                 /\ UNCHANGED <<sessions, inputDuring>>
    /\ UNCHANGED <<catalog, manager, frontend, threads>>

\* /api/question/next without the resume branch
api_question_next_no_resume ==
    /\ \E session_id \in Cookies :
        LET m == get_manager(session_id)
        IN  IF m = None
            THEN Rejected("/api/question/next", session_id)
            ELSE Failed("/api/question/next", session_id, "Failed to get next question")
    /\ UNCHANGED <<catalog, manager, frontend, threads>>


\* /api/question/next that re-issues the pending question without clearing the flag
api_question_next_keep_flag ==
    /\ \E session_id \in Cookies :
        LET m == get_manager(session_id)
        IN  IF m = None
            THEN Rejected("/api/question/next", session_id)
            ELSE IF m._resume_requested /\ m._pending_question # None
                 THEN /\ response' = Response("/api/question/next", session_id, None, 200,
                                              m._pending_question)
                      /\ UNCHANGED <<geometry_managers, sessions, inputDuring>>
                 ELSE Failed("/api/question/next", session_id, "Failed to get next question")
    /\ UNCHANGED <<catalog, manager, frontend, threads>>

\* GET /api/question/next: the class has no get_next_question method, so only the
\* resume branch answers with a question
api_question_next ==
    /\ \E session_id \in Cookies :
        LET m == get_manager(session_id)
        IN  IF m = None
            THEN Rejected("/api/question/next", session_id)
            ELSE IF m._resume_requested /\ m._pending_question # None
                 THEN /\ geometry_managers' =
                            Store(geometry_managers, session_id,
                                  [m EXCEPT !._resume_requested = FALSE])
                      /\ response' = Response("/api/question/next", session_id, None, 200,
                                              m._pending_question)
                      /\ UNCHANGED <<sessions, inputDuring>>
                 ELSE Failed("/api/question/next", session_id, "Failed to get next question")
    /\ UNCHANGED <<catalog, manager, frontend, threads>>

\* POST /api/answer: manager.process_answer(question_id, answer_id)
api_answer ==
    /\ \E session_id \in Cookies, data \in AnswerData :
        LET m == get_manager(session_id)
        IN  IF m = None
            THEN Rejected("/api/answer", session_id)
            ELSE IF InvalidAnswer(data)
                 THEN /\ response' = Response("/api/answer", session_id, data, 400,
                                              [error |-> "Invalid request"])
                      /\ UNCHANGED <<geometry_managers, sessions, inputDuring>>
                 ELSE IF "question_id" \notin DOMAIN data \/ "answer_id" \notin DOMAIN data
                 THEN \* data['question_id'] raises KeyError
                      /\ response' = Response("/api/answer", session_id, data, 500,
                                              [error |-> "Failed to process answer"])
                      /\ UNCHANGED <<geometry_managers, sessions, inputDuring>>
                 ELSE /\ Len(m.state.asked_questions) < MaxAskedApp
                      /\ AvailableQuestions(m.state.asked_questions) # {}
                      /\ \E out \in Manager_process_answer(m, data.question_id, data.answer_id.int) :
                          /\ geometry_managers' = Store(geometry_managers, session_id, out.manager)
                          /\ response' = Response("/api/answer", session_id, data, 200,
                                    [triangle_weights |-> out.manager.state.triangle_weights])
                      /\ inputDuring' = inputDuring \cup
                            {IF "str" \in DOMAIN data.question_id THEN data.question_id.str
                             ELSE IntText(data.question_id.int)}
                      /\ UNCHANGED sessions
    /\ UNCHANGED <<catalog, manager, frontend, threads>>

\* GET /api/theorems: the class has no get_relevant_theorems method
api_theorems ==
    /\ \E session_id \in Cookies, args \in TheoremArgs :
        LET m == get_manager(session_id)
        IN  IF m = None
            THEN Rejected("/api/theorems", session_id)
            ELSE IF args = None
                 THEN /\ response' = Response("/api/theorems", session_id, None, 400,
                                              [error |-> "Invalid request"])
                      /\ UNCHANGED <<geometry_managers, sessions, inputDuring>>
                 ELSE Failed("/api/theorems", session_id, "Failed to get theorems")
    /\ UNCHANGED <<catalog, manager, frontend, threads>>

\* GET /api/session/state
api_session_state ==
    /\ \E session_id \in Cookies :
        LET m == get_manager(session_id)
        IN  IF m = None
            THEN Rejected("/api/session/state", session_id)
            ELSE /\ response' = Response("/api/session/state", session_id, None, 200,
                                    [triangle_weights |-> m.state.triangle_weights,
                                     asked_questions |-> m.state.asked_questions,
                                     questions_count |-> m.state.questions_count,
                                     session_data |-> m.session])
                 /\ UNCHANGED <<geometry_managers, sessions, inputDuring>>
    /\ UNCHANGED <<catalog, manager, frontend, threads>>


\* /api/session/end that removes the manager before it saves the session
api_session_end_remove_first ==
    /\ \E session_id \in Cookies, data \in EndData :
        LET m == get_manager(session_id)
        IN  IF m = None
            THEN Rejected("/api/session/end", session_id)
            ELSE IF data = None
                 THEN /\ response' = Response("/api/session/end", session_id, data, 400,
                                              [error |-> "Invalid request"])
                      /\ UNCHANGED <<geometry_managers, sessions, inputDuring>>
                 ELSE LET with_feedback ==
                              [m EXCEPT !.session = set_feedback(@, data.feedback_id)]
                      IN  IF data.feedback_id = ResumeFeedback
                          THEN /\ geometry_managers' =
                                     Store(geometry_managers, session_id,
                                           [with_feedback EXCEPT !._resume_requested = TRUE])
                               /\ response' = Response("/api/session/end", session_id, data, 200,
                                                       [action |-> "resume"])
                               /\ UNCHANGED <<sessions, inputDuring>>
                          ELSE \E saved \in BOOLEAN :
                               /\ geometry_managers' =
                                     Remove(Store(geometry_managers, session_id, with_feedback),
                                            session_id)
                               /\ IF saved
                                  THEN /\ sessions' = sessions \cup {session_id}
                                       /\ response' =
                                            Response("/api/session/end", session_id, data, 200,
                                                [action |-> "saved",
                                                 session_data |-> with_feedback.session])
                                  ELSE /\ response' =
                                            Response("/api/session/end", session_id, data, 500,
                                                [error |-> "Failed to end session"])
                                       /\ UNCHANGED sessions
                               /\ UNCHANGED inputDuring
    /\ UNCHANGED <<catalog, manager, frontend, threads>>

\* POST /api/session/end; save_session stores the session in the table sessions
api_session_end ==
    /\ \E session_id \in Cookies, data \in EndData :
        LET m == get_manager(session_id)
        IN  IF m = None
            THEN Rejected("/api/session/end", session_id)
            ELSE IF data = None
                 THEN /\ response' = Response("/api/session/end", session_id, data, 400,
                                              [error |-> "Invalid request"])
                      /\ UNCHANGED <<geometry_managers, sessions, inputDuring>>
                 ELSE LET with_feedback ==
                              [m EXCEPT !.session = set_feedback(@, data.feedback_id)]
                      IN  IF data.feedback_id = ResumeFeedback
                          THEN /\ geometry_managers' =
                                     Store(geometry_managers, session_id,
                                           [with_feedback EXCEPT !._resume_requested = TRUE])
                               /\ response' = Response("/api/session/end", session_id, data, 200,
                                                       [action |-> "resume"])
                               /\ UNCHANGED <<sessions, inputDuring>>
                          ELSE \E saved \in BOOLEAN :
                               IF saved
                               THEN /\ sessions' = sessions \cup {session_id}
                                    /\ geometry_managers' =
                                          Remove(Store(geometry_managers, session_id, with_feedback),
                                                 session_id)
                                    /\ response' = Response("/api/session/end", session_id, data, 200,
                                            [action |-> "saved", session_data |-> with_feedback.session])
                                    /\ UNCHANGED inputDuring
                               ELSE \* save_session raises: the except clause answers
                                    /\ geometry_managers' =
                                          Store(geometry_managers, session_id, with_feedback)
                                    /\ response' = Response("/api/session/end", session_id, data, 500,
                                            [error |-> "Failed to end session"])
                                    /\ UNCHANGED <<sessions, inputDuring>>
    /\ UNCHANGED <<catalog, manager, frontend, threads>>

\* GET /api/answers: the manager has no conn attribute
api_answers ==
    /\ \E session_id \in Cookies :
        LET m == get_manager(session_id)
        IN  IF m = None
            THEN Rejected("/api/answers", session_id)
            ELSE Failed("/api/answers", session_id, "Failed to get answers")
    /\ UNCHANGED <<catalog, manager, frontend, threads>>

NextApp ==
    \/ health_check
    \/ api_start
    \/ api_question_first
    \/ api_question_next
    \/ api_answer
    \/ api_theorems
    \/ api_session_state
    \/ api_session_end
    \/ api_answers

SpecApp == InitApp /\ [][NextApp]_vars

---------------------------------------------------------------------------
(* The HTTP service with its requests handled in parallel: app.run() serves every    *)
(* request in a thread of its own and app.py takes no lock, so the steps of          *)
(* get_first_question and process_answer of different requests interleave between    *)
(* their database queries.  Two sessions have been started.                          *)

\* the server threads
ThreadIds == {1, 2}

\* a thread that handles no request
Idle == [pc |-> "idle"]

InitThreads ==
    /\ Triangles = CatalogApp.Triangles
    /\ Questions = CatalogApp.Questions
    /\ Theorems = CatalogApp.Theorems
    /\ TheoremQuestionMatrix = CatalogApp.TheoremQuestionMatrix
    /\ InitialAnswerMultipliers = CatalogApp.InitialAnswerMultipliers
    /\ inputDuring = {}
    /\ triangle_weights = [t \in TriangleIds |-> TriangleWeight]
    /\ theorem_weights = <<>>
    /\ asked_questions = <<>>
    /\ questions_count = 0
    /\ _pending_question = None
    /\ _resume_requested = FALSE
    /\ call = [op |-> "none"]
    /\ geometry_managers = [s \in SessionIds |-> SqlGeometryManager]
    /\ sessions = {}
    /\ response = [endpoint |-> "none"]
    /\ threads = [t \in ThreadIds |-> Idle]
    /\ NoFrontend

\* GET /api/question/first up to random.choice: the easy questions are read, one is chosen
first_question_select(t) ==
    /\ threads[t] = Idle
    /\ EasyQuestions # {}
    /\ \E session_id \in DOMAIN geometry_managers, selected_question \in EasyQuestions :
        /\ Len(geometry_managers[session_id].state.asked_questions) < MaxAskedApp
        /\ threads' = [threads EXCEPT ![t] = [pc |-> "first_question_record",
                                              session_id |-> session_id,
                                              selected_question |-> selected_question]]
    /\ UNCHANGED <<catalog, inputDuring, manager, frontend, geometry_managers, sessions, response>>

\* get_first_question from the append on: history, count, pending question, response
first_question_record(t) ==
    /\ threads[t].pc = "first_question_record"
    /\ LET session_id == threads[t].session_id
           m == geometry_managers[session_id]
           question == QuestionView(threads[t].selected_question, 1)
       IN  /\ geometry_managers' =
                 Store(geometry_managers, session_id,
                       [m EXCEPT !.state.asked_questions = Append(@, question.question_id),
                                 !.state.questions_count = @ + 1,
                                 !._pending_question = question])
           /\ response' = Response("/api/question/first", session_id, None, 200, question)
    /\ threads' = [threads EXCEPT ![t] = Idle]
    /\ UNCHANGED <<catalog, inputDuring, manager, frontend, sessions>>

\* POST /api/answer up to the selection: the INSERT and _update_weights_based_on_answer
process_answer_update(t) ==
    /\ threads[t] = Idle
    /\ \E session_id \in DOMAIN geometry_managers, data \in {d \in AnswerData : ~InvalidAnswer(d)} :
        LET m == geometry_managers[session_id]
            user_answer == data.question_id
            weights == IF "str" \in DOMAIN user_answer
                       THEN _update_weights_based_on_answer(m.state.theorem_weights,
                                user_answer.str, data.answer_id.int, FALSE).weights
                       ELSE m.state.theorem_weights
        IN  /\ Len(m.state.asked_questions) < MaxAskedApp
            /\ AvailableQuestions(m.state.asked_questions) # {}
            /\ inputDuring' = inputDuring \cup
                  {IF "str" \in DOMAIN user_answer THEN user_answer.str
                   ELSE IntText(user_answer.int)}
            /\ geometry_managers' = Store(geometry_managers, session_id,
                                          [m EXCEPT !.state.theorem_weights = weights])
            /\ threads' = [threads EXCEPT ![t] = [pc |-> "process_answer_select",
                                                  session_id |-> session_id, data |-> data]]
    /\ UNCHANGED <<catalog, manager, frontend, sessions, response>>

\* _select_next_question: the available questions are read with the asked_questions of
\* this moment and the best one is chosen
process_answer_select(t) ==
    /\ threads[t].pc = "process_answer_select"
    /\ LET m == geometry_managers[threads[t].session_id]
       IN  \E rows \in RowOrders(AvailableQuestions(m.state.asked_questions)) :
            threads' = [threads EXCEPT ![t] =
                           [pc |-> "process_answer_record",
                            session_id |-> threads[t].session_id, data |-> threads[t].data,
                            next_question |-> _select_next_question(m.state.theorem_weights,
                                                                    rows, FALSE)]]
    /\ UNCHANGED <<catalog, inputDuring, manager, frontend, geometry_managers, sessions, response>>

\* process_answer after the selection: pending question, history, count, response
process_answer_record(t) ==
    /\ threads[t].pc = "process_answer_record"
    /\ LET session_id == threads[t].session_id
           m == geometry_managers[session_id]
           next_question == threads[t].next_question
           recorded == IF "question_id" \in DOMAIN next_question
                       THEN [m EXCEPT !._pending_question = next_question,
                                      !.state.asked_questions =
                                          Append(@, next_question.question_id),
                                      !.state.questions_count = @ + 1]
                       ELSE [m EXCEPT !._pending_question = next_question]
       IN  /\ geometry_managers' = Store(geometry_managers, session_id, recorded)
           /\ response' = Response("/api/answer", session_id, threads[t].data, 200,
                                   [triangle_weights |-> recorded.state.triangle_weights])
    /\ threads' = [threads EXCEPT ![t] = Idle]
    /\ UNCHANGED <<catalog, inputDuring, manager, frontend, sessions>>

NextThreads ==
    \/ \E t \in ThreadIds : first_question_select(t)
    \/ \E t \in ThreadIds : first_question_record(t)
    \/ \E t \in ThreadIds : process_answer_update(t)
    \/ \E t \in ThreadIds : process_answer_select(t)
    \/ \E t \in ThreadIds : process_answer_record(t)

SpecThreads == InitThreads /\ [][NextThreads]_vars

---------------------------------------------------------------------------
(* A caller that creates one manager and then only submits answers: process_answer   *)
(* is called again and again on the new manager; the caller counts its calls and the *)
(* calls that returned a question.                                                   *)

\* cap on the number of process_answer calls of the caller
MaxCalls == 4

\* the key the caller keeps its manager under
TheSession == 1

InitAnswers ==
    /\ \E c \in {CatalogTie, CatalogNoEasy, CatalogTwoTheorems, CatalogApp} :
        /\ Triangles = c.Triangles
        /\ Questions = c.Questions
        /\ Theorems = c.Theorems
        /\ TheoremQuestionMatrix = c.TheoremQuestionMatrix
        /\ InitialAnswerMultipliers = c.InitialAnswerMultipliers
    /\ inputDuring = {}
    /\ triangle_weights = [t \in TriangleIds |-> TriangleWeight]
    /\ theorem_weights = <<>>
    /\ asked_questions = <<>>
    /\ questions_count = 0
    /\ _pending_question = None
    /\ _resume_requested = FALSE
    /\ call = [op |-> "none"]
    /\ geometry_managers = [s \in {TheSession} |-> SqlGeometryManager]
    /\ sessions = {}
    /\ response = [endpoint |-> "SqlGeometryManager", calls |-> 0, successes |-> 0, ret |-> None]
    /\ threads = <<>>
    /\ NoFrontend

\* manager.process_answer(user_answer, question_id) called directly with a text answer
submit_answer ==
    /\ response.calls < MaxCalls
    /\ \E user_answer \in SessionAnswers, question_id \in QuestionIds :
       \E out \in Manager_process_answer(geometry_managers[TheSession],
                                         JsonString(user_answer), question_id) :
        /\ geometry_managers' = Store(geometry_managers, TheSession, out.manager)
        /\ inputDuring' = inputDuring \cup {user_answer}
        /\ response' = [endpoint |-> "process_answer",
                        calls |-> response.calls + 1,
                        successes |-> response.successes
                                      + (IF "question_id" \in DOMAIN out.ret THEN 1 ELSE 0),
                        ret |-> out.ret]
    /\ UNCHANGED <<catalog, manager, frontend, sessions, threads>>

NextAnswers == submit_answer

SpecAnswers == InitAnswers /\ [][NextAnswers]_vars

\* the same caller when it keeps submitting answers: a call that can be made is made
SpecAnswersFair == InitAnswers /\ [][NextAnswers]_vars /\ WF_vars(submit_answer)

---------------------------------------------------------------------------
(* The question page of the frontend (frontend/pages/Question_Page/Question_Page.py) *)
(* for one browser.  Its Geometry_Manager and UserLogger are other modules of the    *)
(* frontend: the manager keeps the quiz state in session['geometry_state'], the      *)
(* logger appends one record per event.                                              *)

\* cap on the questions answered in one quiz
MaxHistory == 2
\* cap on the number of records in the log
MaxLog == 3

\* the backend service is not part of the run
NoBackend ==
    /\ Triangles = CatalogApp.Triangles
    /\ Questions = CatalogApp.Questions
    /\ Theorems = CatalogApp.Theorems
    /\ TheoremQuestionMatrix = CatalogApp.TheoremQuestionMatrix
    /\ InitialAnswerMultipliers = CatalogApp.InitialAnswerMultipliers
    /\ inputDuring = {}
    /\ triangle_weights = [t \in TriangleIds |-> TriangleWeight]
    /\ theorem_weights = <<>>
    /\ asked_questions = <<>>
    /\ questions_count = 0
    /\ _pending_question = None
    /\ _resume_requested = FALSE
    /\ call = [op |-> "none"]
    /\ geometry_managers = <<>>
    /\ sessions = {}
    /\ threads = <<>>

\* session['user'] after a login (Login_Page.login stores what verify_user returns)
LoggedInUser == [user_id |-> 1, role |-> "user"]

\* the JSON bodies POSTed to /finish (None: no body; the second has no status)
FinishData == { None, [source |-> "page"], [status |-> "partial"], [status |-> "completed"] }

\* data.get('status', 'unknown')
FinishStatus(data) == IF "status" \in DOMAIN data THEN data.status ELSE "unknown"

\* what get_relevant_theorems() can return: the ids of the ranked theorems
RelevantTheorems == { <<>>, <<1>>, <<2, 1>> }

\* session.pop(key, None)
Pop(d, key) == [k \in DOMAIN d \ {key} |-> d[k]]

\* Geometry_Manager().reset_session(): a new quiz state in the session
Geometry_Manager_reset_session(s) == Put(s, "geometry_state", [questions_history |-> <<>>])

\* Geometry_Manager().process_answer(question_id, answer): the answered question joins
\* the history of the quiz state
Geometry_Manager_process_answer(s, question_id, answer) ==
    Put(s, "geometry_state",
        [s["geometry_state"] EXCEPT
            !.questions_history = Append(@, [question_id |-> question_id, answer |-> answer])])

\* UserLogger.log_question_answer(question_id, question_text, answer)
log_question_answer(log, question_id, answer) ==
    Append(log, [event |-> "QUESTION_ANSWER", question_id |-> question_id, answer |-> answer])

\* UserLogger.log_session_end(status, final_theorem_id)
log_session_end(log, status, final_theorem_id) ==
    Append(log, [event |-> "SESSION_END", status |-> status,
                 final_theorem_id |-> final_theorem_id])

\* @question_page.before_request: a session without quiz state gets a new one
check_active_session(s) ==
    IF "geometry_state" \notin DOMAIN s THEN Geometry_Manager_reset_session(s) ELSE s

\* a browser that is logged in or not, before its first request to the page
InitQuestionPage ==
    /\ NoBackend
    /\ flask_session \in { <<>>, [user |-> LoggedInUser] }
    /\ user_log = <<>>
    /\ Users = <<>>
    /\ reset_tokens = <<>>
    /\ response = [endpoint |-> "none"]

\* POST /question/answer
page_process_answer ==
    /\ \E question_id \in {1, 2}, answer \in {"yes", "no"} :
        LET s == check_active_session(flask_session)
        IN  /\ Len(s["geometry_state"].questions_history) < MaxHistory
            /\ Len(user_log) < MaxLog
            /\ flask_session' = Geometry_Manager_process_answer(s, question_id, answer)
            /\ user_log' = log_question_answer(user_log, question_id, answer)
            /\ response' = [endpoint |-> "/question/answer",
                            data |-> [question_id |-> question_id, answer |-> answer],
                            status |-> 200, body |-> [success |-> TRUE]]
    /\ UNCHANGED <<catalog, inputDuring, manager, geometry_managers, sessions, threads,
                   Users, reset_tokens>>

\* /finish that logs the end and drops the quiz state before it looks at the user
finish_session_no_auth ==
    /\ \E data \in FinishData :
        LET s == check_active_session(flask_session)
        IN  IF data = None
            THEN /\ response' = [endpoint |-> "/question/finish", data |-> data,
                                 status |-> 500, body |-> [success |-> FALSE]]
                 /\ flask_session' = s
                 /\ UNCHANGED user_log
            ELSE /\ Len(user_log) < MaxLog
                 /\ user_log' = log_session_end(user_log, FinishStatus(data), None)
                 /\ flask_session' = Pop(s, "geometry_state")
                 /\ response' = [endpoint |-> "/question/finish", data |-> data,
                                 status |-> IF "user" \in DOMAIN s THEN 200 ELSE 401,
                                 body |-> [success |-> "user" \in DOMAIN s]]
    /\ UNCHANGED <<catalog, inputDuring, manager, geometry_managers, sessions, threads,
                   Users, reset_tokens>>

\* POST /question/finish
finish_session ==
    /\ \E data \in FinishData :
        LET s == check_active_session(flask_session)
        IN  IF data = None
            THEN \* data.get raises AttributeError: the except clause answers
                 /\ response' = [endpoint |-> "/question/finish", data |-> data,
                                 status |-> 500, body |-> [success |-> FALSE]]
                 /\ flask_session' = s
                 /\ UNCHANGED user_log
            ELSE IF "user" \notin DOMAIN s
                 THEN /\ response' = [endpoint |-> "/question/finish", data |-> data,
                                      status |-> 401,
                                      body |-> [success |-> FALSE, error |-> "Not authenticated"]]
                      /\ flask_session' = s
                      /\ UNCHANGED user_log
                 ELSE /\ Len(user_log) < MaxLog
                      /\ user_log' = log_session_end(user_log, FinishStatus(data), None)
                      /\ flask_session' = Pop(s, "geometry_state")
                      /\ response' = [endpoint |-> "/question/finish", data |-> data,
                                      status |-> 200,
                                      body |-> [success |-> TRUE,
                                                redirect |-> IF FinishStatus(data) = "partial"
                                                             THEN "question_page.question"
                                                             ELSE "home_page.home"]]
    /\ UNCHANGED <<catalog, inputDuring, manager, geometry_managers, sessions, threads,
                   Users, reset_tokens>>

\* /cleanup that empties the whole session: session.clear()
cleanup_session_clear ==
    /\ Len(user_log) < MaxLog
    /\ \E theorems \in RelevantTheorems :
        LET final_theorem_id == IF theorems # <<>> THEN [id |-> theorems[1]] ELSE None
        IN  /\ flask_session' = <<>>
            /\ user_log' = log_session_end(user_log, "CLEANUP", final_theorem_id)
            /\ response' = [endpoint |-> "/question/cleanup", data |-> None,
                            status |-> 200, body |-> [success |-> TRUE]]
    /\ UNCHANGED <<catalog, inputDuring, manager, geometry_managers, sessions, threads,
                   Users, reset_tokens>>

\* POST /question/cleanup
cleanup_session ==
    /\ Len(user_log) < MaxLog
    /\ \E theorems \in RelevantTheorems :
        LET s == check_active_session(flask_session)
            user_data == Get(s, "user", None)
            final_theorem_id == IF theorems # <<>> THEN [id |-> theorems[1]] ELSE None
            cleared == [k \in DOMAIN s \cap {"user"} |-> s[k]]
        IN  /\ flask_session' = IF user_data # None THEN Put(cleared, "user", user_data)
                                ELSE cleared
            /\ user_log' = log_session_end(user_log, "CLEANUP", final_theorem_id)
            /\ response' = [endpoint |-> "/question/cleanup", data |-> None,
                            status |-> 200, body |-> [success |-> TRUE]]
    /\ UNCHANGED <<catalog, inputDuring, manager, geometry_managers, sessions, threads,
                   Users, reset_tokens>>

NextQuestionPage == page_process_answer \/ finish_session \/ cleanup_session

SpecQuestionPage == InitQuestionPage /\ [][NextQuestionPage]_vars

---------------------------------------------------------------------------
(* Password reset of the frontend (frontend/pages/Login_Page/Login_Page.py): the     *)
(* table Users, the tokens EmailUtils.generate_reset_token has issued, and time      *)
(* passing the expiry of a token.                                                    *)

\* the number of tokens generate_reset_token can issue in a run
MaxTokens == 2

\* a NULL column
Null == [Null |-> TRUE]

UserIds == {1, 2}
Emails == [u \in UserIds |-> IF u = 1 THEN "a@x" ELSE "b@x"]

\* the passwords users type; "" is a field left empty
Passwords == {"", "p", "q"}

\* the e-mail addresses typed into the forgot-password form
FormEmails == {"", "a@x", "b@x", "c@x"}

\* bcrypt.generate_password_hash(password): a hash that verifies this password only
hash_password(password) == [bcrypt |-> password]

\* the tokens a reset link can carry
ResetTokens == 1..MaxTokens

\* EmailUtils.generate_reset_token(): a token that was never issued before
generate_reset_token == ResetTokens \ DOMAIN reset_tokens

\* SELECT user_id FROM Users WHERE reset_token = ? AND reset_token_expiry > now
UsersWithToken(token) ==
    {u \in DOMAIN Users : /\ Users[u].reset_token = [token |-> token]
                          /\ Users[u].reset_token_expiry = [after_now |-> TRUE]}

\* a response of the login page with the form it answers
LoginResponse(endpoint, form, status, success) ==
    [endpoint |-> endpoint, data |-> form, status |-> status, body |-> [success |-> success]]

\* two registered users without a pending reset; create_user stores the password as typed
InitLogin ==
    /\ NoBackend
    /\ flask_session = <<>>
    /\ user_log = <<>>
    /\ Users = [u \in UserIds |-> [email |-> Emails[u], password_hash |-> [plain |-> "p"],
                                   reset_token |-> Null, reset_token_expiry |-> Null]]
    /\ reset_tokens = <<>>
    /\ response = [endpoint |-> "none"]

\* POST /login/forgot-password
forgot_password ==
    /\ \E email \in FormEmails, sent \in BOOLEAN :
        LET form == [email |-> email]
        IN  IF email = "" \/ ~\E u \in DOMAIN Users : Users[u].email = email
            THEN /\ response' = LoginResponse("/login/forgot-password", form, 200, FALSE)
                 /\ UNCHANGED <<Users, reset_tokens>>
            ELSE \E reset_token \in generate_reset_token :
                 /\ Users' = [u \in DOMAIN Users |->
                                 IF Users[u].email = email
                                 THEN [Users[u] EXCEPT
                                          !.reset_token = [token |-> reset_token],
                                          !.reset_token_expiry = [after_now |-> TRUE]]
                                 ELSE Users[u]]
                 /\ reset_tokens' = Put(reset_tokens, reset_token, 0)
                 /\ response' = LoginResponse("/login/forgot-password", form, 200, sent)
    /\ UNCHANGED <<catalog, inputDuring, manager, geometry_managers, sessions, threads,
                   flask_session, user_log>>

\* reset-password whose UPDATE sets the password and leaves the token in place
reset_password_keep_token ==
    /\ \E token \in ResetTokens, new_password \in Passwords, confirm_password \in Passwords :
        LET form == [token |-> token, new_password |-> new_password,
                     confirm_password |-> confirm_password]
        IN  IF new_password = "" \/ confirm_password = "" \/ new_password # confirm_password
               \/ UsersWithToken(token) = {}
            THEN /\ response' = LoginResponse("/login/reset-password", form, 200, FALSE)
                 /\ UNCHANGED <<Users, reset_tokens>>
            ELSE \E user \in UsersWithToken(token) :
                 /\ Users' = [Users EXCEPT ![user].password_hash = hash_password(new_password)]
                 /\ reset_tokens' = [reset_tokens EXCEPT ![token] = @ + 1]
                 /\ response' = LoginResponse("/login/reset-password", form, 200, TRUE)
    /\ UNCHANGED <<catalog, inputDuring, manager, geometry_managers, sessions, threads,
                   flask_session, user_log>>

\* POST /login/reset-password/<token>
reset_password ==
    /\ \E token \in ResetTokens, new_password \in Passwords, confirm_password \in Passwords :
        LET form == [token |-> token, new_password |-> new_password,
                     confirm_password |-> confirm_password]
        IN  IF new_password = "" \/ confirm_password = "" \/ new_password # confirm_password
               \/ UsersWithToken(token) = {}
            THEN /\ response' = LoginResponse("/login/reset-password", form, 200, FALSE)
                 /\ UNCHANGED <<Users, reset_tokens>>
            ELSE \E user \in UsersWithToken(token) :
                 /\ Users' = [Users EXCEPT ![user].password_hash = hash_password(new_password),
                                           ![user].reset_token = Null,
                                           ![user].reset_token_expiry = Null]
                 /\ reset_tokens' = [reset_tokens EXCEPT ![token] = @ + 1]
                 /\ response' = LoginResponse("/login/reset-password", form, 200, TRUE)
    /\ UNCHANGED <<catalog, inputDuring, manager, geometry_managers, sessions, threads,
                   flask_session, user_log>>

\* datetime.now() passes the reset_token_expiry of a user
token_expires ==
    /\ \E u \in DOMAIN Users :
        /\ Users[u].reset_token_expiry = [after_now |-> TRUE]
        /\ Users' = [Users EXCEPT ![u].reset_token_expiry = [after_now |-> FALSE]]
    /\ UNCHANGED <<catalog, inputDuring, manager, geometry_managers, sessions, threads,
                   flask_session, user_log, reset_tokens, response>>

NextLogin == forgot_password \/ reset_password \/ token_expires

SpecLogin == InitLogin /\ [][NextLogin]_vars

---------------------------------------------------------------------------
(* Properties *)

IsQuestion(d) == "question_id" \in DOMAIN d
IsError(d) == "error" \in DOMAIN d

\* C1: asked_questions never contains the same question id twice (no operation issues
\* a question that was already asked).
C1_NoQuestionAskedTwice ==
    \A i, j \in 1..Len(asked_questions) : asked_questions[i] = asked_questions[j] => i = j

\* C2: the first question recorded in a session is an active question of difficulty 1,
\* whether get_first_question or process_answer issued it.
C2_FirstQuestionIsEasy ==
    Len(asked_questions) >= 1 =>
        /\ Questions[asked_questions[1]].active = 1
        /\ Questions[asked_questions[1]].difficulty_level = 1

\* C3: in every reachable state, also after failed reads and calls that returned an
\* error, every category weight is >= 0 and every theorem weight lies in [0, 1].
C3_WeightsInRange ==
    /\ \A c \in DOMAIN triangle_weights : triangle_weights[c] >= 0
    /\ \A t \in DOMAIN theorem_weights : theorem_weights[t] >= 0 /\ theorem_weights[t] <= ONE

\* a weight has been boosted up to the clamp and the last call returned an error
C3_Witness ==
    /\ \E t \in DOMAIN theorem_weights : theorem_weights[t] = ONE
    /\ IsError(call.ret)
    /\ call.fails # {}

\* C4: a step never lowers a theorem weight and never takes it above 1.0, unless the
\* step is reset_session (a theorem without an entry counts with the 0.01 it is read as).
C4_WeightsMonotone ==
    [][ \/ call'.op = "reset_session"
        \/ \A t \in TheoremIds :
              /\ t \in DOMAIN theorem_weights => t \in DOMAIN theorem_weights'
              /\ t \in DOMAIN theorem_weights' =>
                    /\ Get(theorem_weights, t, BaseWeight) <= theorem_weights'[t]
                    /\ theorem_weights'[t] <= ONE ]_vars

\* process_answer has boosted a weight
C4_Witness ==
    /\ call.op = "process_answer"
    /\ \E t \in DOMAIN theorem_weights :
          theorem_weights[t] > BaseWeight /\ theorem_weights[t] < ONE

\* the claim's keyword test: one of the first three words of the theorem text, longer
\* than 2, occurs in the answer when case is ignored
C5_KeywordInAnswer(t, answer) ==
    LET words == Split(Theorems[t].theorem_text)
    IN  \E i \in 1..3 :
            /\ i <= Len(words)
            /\ Len(words[i]) > 2
            /\ In(Lower(words[i]), Lower(answer))

C5_Boosted(t) ==
    /\ Theorems[t].active = 1
    /\ <<t, call.question_id>> \in TheoremQuestionMatrix
    /\ C5_KeywordInAnswer(t, call.user_answer)

\* C5: the update of a free-text answer sets the weight of exactly the active theorems
\* linked to the question with a keyword in the answer to min(1.5 x old, 1.0) (0.01
\* becomes 0.015) and leaves every other theorem weight and every category weight alone.
C5_UpdateExact ==
    (call.op = "_update_weights_based_on_answer" /\ "update" \notin call.fails) =>
        /\ \A t \in TheoremIds :
              IF C5_Boosted(t)
              THEN /\ t \in DOMAIN theorem_weights
                   /\ 2 * theorem_weights[t] = Min(3 * Get(call.before, t, BaseWeight), 2 * ONE)
                   /\ Get(call.before, t, BaseWeight) = BaseWeight => theorem_weights[t] = 6144
              ELSE /\ t \in DOMAIN theorem_weights <=> t \in DOMAIN call.before
                   /\ t \in DOMAIN theorem_weights => theorem_weights[t] = call.before[t]
        /\ triangle_weights = [c \in TriangleIds |-> TriangleWeight]

\* an update boosted one theorem from 0.01 and left another one alone
C5_Witness ==
    /\ call.op = "_update_weights_based_on_answer"
    /\ "update" \notin call.fails
    /\ \E t, u \in DOMAIN theorem_weights :
          /\ C5_Boosted(t) /\ Get(call.before, t, 0) = BaseWeight /\ theorem_weights[t] = 6144
          /\ ~C5_Boosted(u) /\ Theorems[u].active = 1

\* the score the claims state: difficulty_level + 10 x the sum of the weights of the
\* linked theorems (a theorem without an entry is read with the initial 0.01)
RECURSIVE C6_WeightSum(_, _)
C6_WeightSum(links, weights) ==
    IF links = {} THEN 0
    ELSE LET l == CHOOSE l \in links : TRUE
         IN  (IF l[1] \in DOMAIN weights THEN weights[l[1]] ELSE BaseWeight)
             + C6_WeightSum(links \ {l}, weights)

C6_ClaimedScore(q, weights) ==
    Questions[q].difficulty_level * ONE
    + 10 * C6_WeightSum({l \in TheoremQuestionMatrix : l[2] = q}, weights)

\* a process_answer step whose queries for the selection succeed
SelectionStep ==
    /\ call'.op = "process_answer"
    /\ "insert" \notin call'.fails
    /\ "select" \notin call'.fails

\* C6: with a non-empty history and an unasked active question left, the question the
\* selection of process_answer issues is an unasked active question of maximum
\* score = difficulty_level + 10 x (sum of the current weights of its linked theorems).
C6_SelectsMaxScore ==
    [][ (/\ SelectionStep
         /\ asked_questions # <<>>
         /\ AvailableQuestions(asked_questions) # {}) =>
            /\ IsQuestion(call'.ret)
            /\ call'.ret.question_id \in AvailableQuestions(asked_questions)
            /\ \A c \in AvailableQuestions(asked_questions) :
                  C6_ClaimedScore(c, theorem_weights')
                      <= C6_ClaimedScore(call'.ret.question_id, theorem_weights') ]_vars

\* process_answer issued a second question while another candidate was left, after a
\* boost had changed the scores
C6_Witness ==
    /\ call.op = "process_answer"
    /\ IsQuestion(call.ret)
    /\ Len(asked_questions) = 2
    /\ asked_questions[2] = call.ret.question_id
    /\ AvailableQuestions(asked_questions) # {}
    /\ \E t \in DOMAIN theorem_weights : theorem_weights[t] > BaseWeight

\* C7: among the candidates of maximum score the selection returns the one with the
\* lowest question id, whatever the order of the rows.
C7_TieLowestId ==
    [][ (SelectionStep /\ IsQuestion(call'.ret)) =>
            \A c \in AvailableQuestions(asked_questions) :
                C6_ClaimedScore(c, theorem_weights')
                    = C6_ClaimedScore(call'.ret.question_id, theorem_weights')
                => call'.ret.question_id <= c ]_vars

\* C8: when every active question has been asked, process_answer returns the
\* no-more-questions signal, not an error, and records no question.
C8_TerminationNotError ==
    [][ (SelectionStep /\ AvailableQuestions(asked_questions) = {}) =>
            /\ call'.ret = [message |-> "No more questions available"]
            /\ ~IsError(call'.ret)
            /\ asked_questions' = asked_questions
            /\ questions_count' = questions_count ]_vars

\* C9: a process_answer whose selection queries fail returns a failure that differs
\* from what process_answer returns when no unasked question remains (here: from the
\* result of the call before it, which found none with all its queries succeeding).
C9_FailureDistinct ==
    [][ (/\ call.op = "process_answer"
         /\ call.fails = {}
         /\ ~IsQuestion(call.ret)
         /\ call'.op = "process_answer"
         /\ "insert" \notin call'.fails
         /\ "select" \in call'.fails) =>
            /\ IsError(call'.ret)
            /\ call'.ret # call.ret ]_vars

\* C10: when the theorem lookup of the update fails, no theorem weight and no category
\* weight changes, and process_answer still selects: with an unasked active question
\* left and the selection queries succeeding it issues and returns one.
C10_UpdateFailureSwallowed ==
    [][ (/\ call'.op = "process_answer"
         /\ "insert" \notin call'.fails
         /\ "update" \in call'.fails) =>
            /\ theorem_weights' = theorem_weights
            /\ triangle_weights' = triangle_weights
            /\ ("select" \notin call'.fails /\ AvailableQuestions(asked_questions) # {}) =>
                  /\ IsQuestion(call'.ret)
                  /\ call'.ret.question_id \in AvailableQuestions(asked_questions)
                  /\ _pending_question' = call'.ret
                  /\ asked_questions' = Append(asked_questions, call'.ret.question_id) ]_vars

\* process_answer issued a question although its theorem lookup had failed
C10_Witness ==
    /\ call.op = "process_answer"
    /\ call.fails = {"update"}
    /\ IsQuestion(call.ret)
    /\ _pending_question = call.ret

\* C11: a process_answer that returns an error leaves triangle_weights, theorem_weights,
\* asked_questions, questions_count and the pending question as they were before it.
C11_AllOrNothing ==
    [][ (call'.op = "process_answer" /\ IsError(call'.ret)) =>
            /\ triangle_weights' = triangle_weights
            /\ theorem_weights' = theorem_weights
            /\ asked_questions' = asked_questions
            /\ questions_count' = questions_count
            /\ _pending_question' = _pending_question ]_vars

\* C12: reset_session in any state gives the state of a new session: 0.25 for every
\* category, 0.01 for exactly the active theorems, no history, count 0, no pending
\* question, no resume request.
C12_ResetGivesFreshState ==
    [][ call'.op = "reset_session" =>
            /\ triangle_weights' = [c \in TriangleIds |-> TriangleWeight]
            /\ theorem_weights' = [t \in ActiveTheorems |-> BaseWeight]
            /\ asked_questions' = <<>>
            /\ questions_count' = 0
            /\ _pending_question' = None
            /\ _resume_requested' = FALSE ]_vars

\* C13: right after creation and after reset every one of the N categories of the
\* catalog has weight 1/N, and no other category has a weight.
C13_UniformOverCatalog ==
    call.op \in {"__init__", "reset_session"} =>
        /\ DOMAIN triangle_weights = Triangles
        /\ \A c \in DOMAIN triangle_weights :
              Cardinality(Triangles) * triangle_weights[c] = ONE

\* C14: questions_count is the length of asked_questions; a get_first_question or
\* process_answer that returns a question stores it as pending, appends its id and adds
\* one to the count; one that returns no question changes neither history nor count.
C14_CountMatchesHistory ==
    /\ [](questions_count = Len(asked_questions))
    /\ [][ call'.op \in {"get_first_question", "process_answer"} =>
              IF IsQuestion(call'.ret)
              THEN /\ _pending_question' = call'.ret
                   /\ asked_questions' = Append(asked_questions, call'.ret.question_id)
                   /\ questions_count' = questions_count + 1
              ELSE /\ asked_questions' = asked_questions
                   /\ questions_count' = questions_count ]_vars

\* both operations have issued a question: the history and the count stand at 2
C14_Witness ==
    /\ call.op = "process_answer"
    /\ IsQuestion(call.ret)
    /\ questions_count = 2
    /\ Len(asked_questions) = 2
    /\ Questions[asked_questions[1]].difficulty_level = 1

\* the endpoints that need a session
SessionScoped ==
    {"/api/question/first", "/api/question/next", "/api/answer", "/api/theorems",
     "/api/session/state", "/api/session/end", "/api/answers"}

\* the response answers a POST /api/session/end that carried feedback_id
EndedWith(r, feedback_id) ==
    /\ r.endpoint = "/api/session/end"
    /\ "feedback_id" \in DOMAIN r.data
    /\ r.data.feedback_id = feedback_id

\* the belief state and the pending question of session s are the same after the step
Preserved(s) ==
    /\ s \in DOMAIN geometry_managers'
    /\ geometry_managers'[s].state = geometry_managers[s].state
    /\ geometry_managers'[s]._pending_question = geometry_managers[s]._pending_question

C16_ResumeKeepsSession ==
    [][ ( /\ EndedWith(response', 7)
          /\ response'.session_id \in DOMAIN geometry_managers )
        => /\ sessions' = sessions
           /\ DOMAIN geometry_managers' = DOMAIN geometry_managers
           /\ Preserved(response'.session_id) ]_vars

\* a session with a boosted weight, a history and a pending question was ended with 7
C16_Witness ==
    /\ EndedWith(response, 7)
    /\ response.status = 200
    /\ response.session_id \in DOMAIN geometry_managers
    /\ LET m == geometry_managers[response.session_id]
       IN  /\ m._resume_requested
           /\ m._pending_question # None
           /\ Len(m.state.asked_questions) = 2
           /\ m.state.theorem_weights[1] > BaseWeight

\* the state of a manager right after construction
IsFresh(m) ==
    /\ m.state.triangle_weights = [c \in TriangleIds |-> TriangleWeight]
    /\ m.state.theorem_weights = [t \in ActiveTheorems |-> BaseWeight]
    /\ m.state.asked_questions = <<>>
    /\ m.state.questions_count = 0
    /\ m._pending_question = None
    /\ ~m._resume_requested

C19_SessionsIsolated ==
    [][ \A b \in DOMAIN geometry_managers :
            b # response'.session_id
            => /\ Preserved(b)
               /\ geometry_managers'[b]._resume_requested = geometry_managers[b]._resume_requested
      ]_vars

\* two sessions side by side: an answer has just boosted a weight of one while the other
\* holds its initial weights, its own history and a resume request
C19_Witness ==
    /\ response.endpoint = "/api/answer"
    /\ response.status = 200
    /\ \E a, b \in DOMAIN geometry_managers :
        /\ a # b
        /\ response.session_id = a
        /\ geometry_managers[a].state.theorem_weights[1] > BaseWeight
        /\ geometry_managers[b].state.theorem_weights[1] = BaseWeight
        /\ geometry_managers[b].state.asked_questions = <<1, 1>>
        /\ geometry_managers[b]._resume_requested

\* C20: the requests of one session are handled one at a time: never are two requests of
\* the same session inside get_first_question or process_answer at once.
C20_OneRequestPerSession ==
    \A t, u \in ThreadIds :
        (t # u /\ threads[t] # Idle /\ threads[u] # Idle)
        => threads[t].session_id # threads[u].session_id

\* C21: POST /api/answer on an active session with no body, no question_id or no
\* answer_id answers 400 'Invalid request' without calling process_answer: the session's
\* weights, history, count and pending question are unchanged and nothing is stored.
C21_InvalidAnswerRejected ==
    [][ ( /\ response'.endpoint = "/api/answer"
          /\ response'.session_id \in DOMAIN geometry_managers
          /\ \/ response'.data = None
             \/ "question_id" \notin DOMAIN response'.data
             \/ "answer_id" \notin DOMAIN response'.data )
        => /\ response'.status = 400
           /\ response'.body = [error |-> "Invalid request"]
           /\ UNCHANGED <<geometry_managers, sessions, inputDuring>> ]_vars

\* an answer without answer_id was rejected in a session that has asked a question
C21_Witness ==
    /\ response.endpoint = "/api/answer"
    /\ response.data = [question_id |-> JsonNumber(1)]
    /\ response.status = 400
    /\ response.session_id \in DOMAIN geometry_managers
    /\ geometry_managers[response.session_id].state.questions_count = 1
    /\ geometry_managers[response.session_id]._pending_question # None

\* C22: a failed read of the theorems during creation or reset is reported to the caller
\* as a failure: no manager is created or reset normally with a theorem_weights map that
\* lacks an active theorem.
C22_ReadFailurePropagates ==
    (call.op \in {"__init__", "reset_session"} /\ "init" \in call.fails)
    => \/ IsError(call.ret)
       \/ DOMAIN theorem_weights = ActiveTheorems

\* the score of a candidate counted over its active linked theorems only
RECURSIVE C24_ActiveWeightSum(_, _)
C24_ActiveWeightSum(links, weights) ==
    IF links = {} THEN 0
    ELSE LET l == CHOOSE l \in links : TRUE
         IN  (IF Theorems[l[1]].active = 1
              THEN (IF l[1] \in DOMAIN weights THEN weights[l[1]] ELSE BaseWeight)
              ELSE 0)
             + C24_ActiveWeightSum(links \ {l}, weights)

C24_ActiveScore(q, weights) ==
    Questions[q].difficulty_level * ONE
    + 10 * C24_ActiveWeightSum({l \in TheoremQuestionMatrix : l[2] = q}, weights)

\* C24: inactive theorems do not influence the selection: the question process_answer
\* issues has the maximum score among the candidates when the links to inactive theorems
\* are left out of every score.
C24_InactiveNoInfluence ==
    [][ (SelectionStep /\ IsQuestion(call'.ret)) =>
            \A c \in AvailableQuestions(asked_questions) :
                C24_ActiveScore(c, theorem_weights')
                    <= C24_ActiveScore(call'.ret.question_id, theorem_weights') ]_vars

\* C25: no operation of the manager writes to the database: every table is the same
\* after any operation.
C25_NoStorageWrite ==
    [][ UNCHANGED <<Triangles, Questions, Theorems, TheoremQuestionMatrix, inputDuring>> ]_vars

\* C23: after /api/answer with a selected answer id, the weight of every category that
\* has an InitialAnswerMultipliers row for (question_id, category, answer) is its previous
\* weight times the multiplier, the response carries these weights, and no weight is
\* negative.
C23_MultipliersApplied ==
    [][ ( /\ response'.endpoint = "/api/answer"
          /\ response'.status = 200
          /\ "int" \in DOMAIN response'.data.question_id )
        => LET s == response'.session_id
               before == geometry_managers[s].state.triangle_weights
               after == geometry_managers'[s].state.triangle_weights
           IN  /\ \A row \in InitialAnswerMultipliers :
                     ( /\ row.question_id = response'.data.question_id.int
                       /\ row.answer_type = response'.data.answer_id.int )
                     => after[row.triangle_id] = before[row.triangle_id] * row.multiplier
               /\ response'.body.triangle_weights = after
               /\ \A c \in DOMAIN after : after[c] >= 0 ]_vars

\* C26: on a new session that is only sent answers, after k process_answer calls that
\* returned a question asked_questions has length exactly k (3 after three such calls).
C26_LengthIsSuccesses ==
    Len(geometry_managers[TheSession].state.asked_questions) = response.successes

\* three calls returned a question, the history has three entries, and a fourth call
\* found no question left
C26_Witness ==
    /\ response.calls = 4
    /\ response.successes = 3
    /\ "error" \in DOMAIN response.ret
    /\ Len(geometry_managers[TheSession].state.asked_questions) = 3

\* 0.01 x 1.5^4, 0.01 x 1.5^5 and 0.01 x 1.5^11 in weight units
FourBoosts == (BaseWeight * 81) \div 16
FiveBoosts == (BaseWeight * 243) \div 32
ElevenBoosts == (BaseWeight * 177147) \div 2048

\* an update that went through and boosted theorem t
C27_BoostOf(t) ==
    /\ call.op = "_update_weights_based_on_answer"
    /\ "update" \notin call.fails
    /\ C5_Boosted(t)

\* C27 as stated: the fifth boost in a row of a weight that started at 0.01 gives 1.0.
C27_FiveBoostsReachCap ==
    \A t \in TheoremIds :
        (C27_BoostOf(t) /\ Get(call.before, t, BaseWeight) = FourBoosts)
        => theorem_weights[t] = ONE

\* C27 amended: the fifth boost in a row of a weight that started at 0.01 gives
\* 0.01 x 1.5^5 = 0.0759375; a weight below 0.01 x 1.5^11 stays below 1.0 when boosted;
\* the twelfth boost gives 1.0, and a boost of 1.0 gives 1.0, never more.
C27_BoostLadder ==
    \A t \in TheoremIds :
        C27_BoostOf(t)
        => LET before == Get(call.before, t, BaseWeight)
               after == theorem_weights[t]
           IN  /\ before = FourBoosts => after = FiveBoosts
               /\ before < ElevenBoosts => after < ONE
               /\ before = ElevenBoosts => after = ONE
               /\ before = ONE => after = ONE
               /\ after <= ONE

\* a weight that had been boosted four times from 0.01 was boosted a fifth time
C27_Witness ==
    \E t \in DOMAIN theorem_weights :
        /\ C27_BoostOf(t)
        /\ Get(call.before, t, 0) = FourBoosts
        /\ theorem_weights[t] = FiveBoosts

\* C28: on a session whose history begins with a first (difficulty 1) question, whose
\* last request was an answer that was processed, and on which no resume is requested,
\* GET /api/question/next answers 200 with a question or 404 with no question
\* available, never a server failure.
C28_NextQuestionAnswers ==
    [][ \A session_id \in DOMAIN geometry_managers :
          ( /\ response'.endpoint = "/api/question/next"
            /\ response'.session_id = session_id
            /\ response.endpoint = "/api/answer"
            /\ response.session_id = session_id
            /\ response.status = 200
            /\ Len(geometry_managers[session_id].state.asked_questions) >= 2
            /\ Questions[geometry_managers[session_id].state.asked_questions[1]]
                    .difficulty_level = 1
            /\ ~geometry_managers[session_id]._resume_requested )
          => \/ /\ response'.status = 200
                /\ "question_id" \in DOMAIN response'.body
             \/ /\ response'.status = 404
                /\ "error" \in DOMAIN response'.body ]_vars

\* the theorems a recommendation over weights w lists: the active theorems at or above
\* the threshold, or the single highest-weighted active theorem when none is
C30_Recommended(w, threshold) ==
    LET active == {t \in DOMAIN w : Theorems[t].active = 1}
        above == {t \in active : w[t] >= threshold}
    IN  IF above # {}
        THEN above
        ELSE {t \in active : \A u \in active : w[u] < w[t] \/ (w[u] = w[t] /\ t <= u)}

\* C29: a GET /api/theorems request with both parameters on an active session is
\* answered with a theorem list that is ordered by weight descending, equal weights by
\* ascending theorem id.
C29_TheoremsOrdered ==
    [][ ( /\ response'.endpoint = "/api/theorems"
          /\ response'.session_id \in DOMAIN geometry_managers
          /\ response'.status # 400 )
        => /\ "theorems" \in DOMAIN response'.body
           /\ \A i, j \in 1..Len(response'.body.theorems) :
                i < j => LET a == response'.body.theorems[i]
                             b == response'.body.theorems[j]
                         IN  \/ a.weight > b.weight
                             \/ a.weight = b.weight /\ a.theorem_id < b.theorem_id ]_vars

\* C30: a GET /api/theorems request with both parameters on an active session that holds
\* an active theorem is answered with a non-empty list: the theorems at or above the
\* threshold (0.01 by default), else the single highest-weighted theorem.
C30_TheoremsNonEmpty ==
    [][ \A session_id \in DOMAIN geometry_managers :
          ( /\ response'.endpoint = "/api/theorems"
            /\ response'.session_id = session_id
            /\ response'.status # 400
            /\ \E t \in DOMAIN Theorems : Theorems[t].active = 1 )
          => /\ "theorems" \in DOMAIN response'.body
             /\ Len(response'.body.theorems) > 0
             /\ {response'.body.theorems[i].theorem_id :
                    i \in 1..Len(response'.body.theorems)}
                = C30_Recommended(geometry_managers[session_id].state.theorem_weights,
                                  BaseWeight) ]_vars

\* the active questions that are not in the history of the session
C31_Unasked ==
    {q \in DOMAIN Questions :
        /\ Questions[q].active = 1
        /\ \A i \in DOMAIN geometry_managers[TheSession].state.asked_questions :
              geometry_managers[TheSession].state.asked_questions[i] # q}

\* C31: when the caller keeps submitting answers and the reads succeed, every call that
\* issues a question strictly shrinks the set of active unasked questions, never more
\* questions are issued than there are active questions, and the session eventually has
\* no active unasked question left.
C31_QuestionsRunOut ==
    /\ [][ response'.successes = response.successes + 1
           => /\ C31_Unasked' \subseteq C31_Unasked
              /\ C31_Unasked' # C31_Unasked ]_vars
    /\ [](response.successes <= Cardinality({q \in DOMAIN Questions : Questions[q].active = 1}))
    /\ <>(C31_Unasked = {})

\* three questions were issued, one per active question, and none is left
C31_Witness ==
    /\ response.successes = 3
    /\ Cardinality({q \in DOMAIN Questions : Questions[q].active = 1}) = 3
    /\ C31_Unasked = {}

\* C32: in every state the pending question is absent or a question view (id, text,
\* difficulty) whose id is the last element of asked_questions; it is never an error or
\* a 'no more questions' payload.
C32_PendingIsLastAsked ==
    \/ _pending_question = None
    \/ /\ DOMAIN _pending_question = {"question_id", "question_text", "difficulty_level"}
       /\ asked_questions # <<>>
       /\ _pending_question.question_id = asked_questions[Len(asked_questions)]

\* C33: POST /api/answer with body {question_id: q, answer_id: a} that is processed
\* stores a as the answer value, and changes the weight of no theorem other than the
\* active theorems linked to question q.
C33_AnswerOfQuestion ==
    [][ ( /\ response'.endpoint = "/api/answer"
          /\ response'.status = 200
          /\ "int" \in DOMAIN response'.data.question_id )
        => LET s == response'.session_id
               q == response'.data.question_id.int
               a == response'.data.answer_id.int
               before == geometry_managers[s].state.theorem_weights
               after == geometry_managers'[s].state.theorem_weights
           IN  /\ inputDuring' = inputDuring \cup {IntText(a)}
               /\ \A t \in DOMAIN after :
                     t \notin ActiveLinkedTheorems(q) => after[t] = Get(before, t, BaseWeight) ]_vars

\* C34: a request that records a question id in the asked_questions of a session
\* delivers that question in the body of its response: no question is marked as asked
\* without having been shown.
C34_AskedWasShown ==
    [][ \A s \in DOMAIN geometry_managers' :
          LET old == IF s \in DOMAIN geometry_managers
                     THEN geometry_managers[s].state.asked_questions
                     ELSE <<>>
              new == geometry_managers'[s].state.asked_questions
          IN  Len(new) > Len(old)
              => /\ response'.session_id = s
                 /\ "question_id" \in DOMAIN response'.body
                 /\ response'.body.question_id = new[Len(new)] ]_vars

\* the request answered by this step took the resume path of /api/question/next on
\* session s: it answered 200 while the resume flag was set
C35_Resumed(s) ==
    /\ s \in DOMAIN geometry_managers
    /\ geometry_managers[s]._resume_requested
    /\ response'.endpoint = "/api/question/next"
    /\ response'.session_id = s
    /\ response'.status = 200

\* C35: a resume request is consumed exactly once: the next-question request that
\* re-issues the pending question clears the resume flag, a next-question request takes
\* that path only while the flag is set, and the flag is set only by a feedback-7
\* request.
C35_ResumeConsumedOnce ==
    [][ \A s \in DOMAIN geometry_managers' :
          /\ C35_Resumed(s) => ~geometry_managers'[s]._resume_requested
          /\ ( /\ response'.endpoint = "/api/question/next"
               /\ response'.session_id = s
               /\ response'.status = 200 )
             => ( /\ s \in DOMAIN geometry_managers
                  /\ geometry_managers[s]._resume_requested
                  /\ response'.body = geometry_managers[s]._pending_question )
          /\ ( /\ geometry_managers'[s]._resume_requested
               /\ ~(s \in DOMAIN geometry_managers /\ geometry_managers[s]._resume_requested) )
             => ( /\ response'.endpoint = "/api/session/end"
                  /\ response'.session_id = s
                  /\ response'.data # None
                  /\ response'.data.feedback_id = ResumeFeedback ) ]_vars

\* a next-question request has just re-issued the pending question of a session and
\* left its resume flag cleared
C35_Witness ==
    /\ response.endpoint = "/api/question/next"
    /\ response.status = 200
    /\ response.session_id \in DOMAIN geometry_managers
    /\ ~geometry_managers[response.session_id]._resume_requested
    /\ response.body = geometry_managers[response.session_id]._pending_question

\* C36: the manager of a session leaves geometry_managers only in a step that saved
\* the session; when save_session raises, /api/session/end answers 500 and the manager
\* stays registered with its weights, history, count and pending question unchanged.
C36_RemovedOnlyWhenSaved ==
    [][ \A s \in DOMAIN geometry_managers :
          /\ s \notin DOMAIN geometry_managers'
             => /\ response'.endpoint = "/api/session/end"
                /\ response'.session_id = s
                /\ response'.status = 200
                /\ s \in sessions'
          /\ ( /\ response'.endpoint = "/api/session/end"
               /\ response'.session_id = s
               /\ response'.status = 500 )
             => /\ s \in DOMAIN geometry_managers'
                /\ s \in sessions' <=> s \in sessions
                /\ geometry_managers'[s].state = geometry_managers[s].state
                /\ geometry_managers'[s]._pending_question = geometry_managers[s]._pending_question
                /\ geometry_managers'[s]._resume_requested = geometry_managers[s]._resume_requested
        ]_vars

\* /api/session/end has just failed to save a session that has a question history; its
\* manager is still registered
C36_Witness ==
    /\ response.endpoint = "/api/session/end"
    /\ response.status = 500
    /\ response.session_id \in DOMAIN geometry_managers
    /\ response.session_id \notin sessions
    /\ geometry_managers[response.session_id].state.asked_questions # <<>>

C38_CleanupKeepsUser ==
    [][ ( /\ response'.endpoint = "/question/cleanup"
          /\ response'.status = 200 )
        => /\ DOMAIN flask_session' \subseteq {"user"}
           /\ "user" \in DOMAIN flask_session' <=> "user" \in DOMAIN flask_session
           /\ "user" \in DOMAIN flask_session
              => flask_session'["user"] = flask_session["user"] ]_vars

\* /cleanup has just cleared the quiz state of a logged-in user who had answered a
\* question: only 'user' is left in the session
C38_Witness ==
    /\ response.endpoint = "/question/cleanup"
    /\ response.status = 200
    /\ flask_session = [user |-> LoggedInUser]
    /\ \E i \in DOMAIN user_log : user_log[i].event = "QUESTION_ANSWER"

====
